---- MODULE Spec2Model ----
(***************************************************************************)
(* Leave workflow of the HR management system: the leaves and              *)
(* leave_balances tables, the repository operations of                     *)
(* internal/leave/repository.go running as concurrent database sessions    *)
(* (PostgreSQL, READ COMMITTED: a plain SELECT takes no lock, an UPDATE    *)
(* takes the row lock and keeps it until its transaction ends), and the    *)
(* pure helpers of internal/leave/models.go.                               *)
(*                                                                         *)
(* The columns of a row are those of the gorm structs LeaveRequest and      *)
(* LeaveBalance (leave_status, deleted_at: deletion is a soft delete); the   *)
(* CHECK and UNIQUE constraints are those of migration 003.  Dates are day   *)
(* numbers, instants are hours; the column reason is left out.              *)
(*                                                                         *)
(* SpecBalance is repository.LeaveBalance on its own, over every ledger the  *)
(* constraints admit.  SpecRpc is one unary call on its way through the     *)
(* interceptor chain of Server.Start (cmd/server/main.go) with AuthFunc and  *)
(* RecoveryInterceptor of internal/middleware.                              *)
(***************************************************************************)
EXTENDS Integers, Sequences, FiniteSets, TLC

\* ---------------------------------------------------------------- bounds
MaxLeaves == 1
MaxDay == 1
DaysPerYear == 1
MaxTotal == 2
MaxCalcHour == 49
MaxInflight == 2
MaxPageInput == 101
MaxLength == 63

\* ------------------------------------------------------- program constants
HoursPerDay == 24
ErrChanCap == 1
ShutdownTimeout == 30
DefaultPageSize == 10
MaxPageSize == 100
CharsetLen == 62
RequestIDLength == 8

Procs == {"p1", "p2"}
Employees == {"e1"}
LeaveTypes == {"ANNUAL", "SICK"}
Approvers == {"m1"}
CommentTexts == {"c"}
NoApprover == "NULL"
NoTime == -1
ZeroTime == -1
NoDays == -1
Clock == {1}

\* instants (in hours) a client sends as start and end: midnights of the days
Times == {HoursPerDay * d : d \in 0..MaxDay}
LeaveStatuses == {"PENDING", "APPROVED", "REJECTED", "CANCELLED"}

VARIABLES
    leaves,     \* table leaves: sequence of rows, the id of a row is its index
    balances,   \* table leave_balances: key <<employee, type, year>> -> row
    pc,         \* position of each session inside its repository call
    args,       \* the request (approver, comments) of the running call
    leaveRead,  \* `leave`, the row the running call read:   id  :> row
    balRead,    \* `balance`, the ledger row it read:        key :> row
    wLeave,     \* uncommitted write of the session to leaves (row locked)
    wBal,       \* uncommitted write of the session to leave_balances
    ret,        \* last call of the session and the error it returned
    calc,       \* input and result of one calculateDaysRequested evaluation
    resp,       \* request and response of one LeaveBalance query
    rpc,        \* one unary call on its way through the interceptor chain
    srv,        \* Server.Start: the main goroutine, Serve, the shutdown
    org,        \* tables employees and departments and the calls creating rows
    paging,     \* page and page size of one list call of a service
    rand        \* one evaluation of randomString

vars == <<leaves, balances, pc, args, leaveRead, balRead, wLeave, wBal, ret,
          calc, resp, rpc, srv, org, paging, rand>>

\* the tables and the sessions of the repository
dbVars == <<leaves, balances, pc, args, leaveRead, balRead, wLeave, wBal, ret>>

\* what a repository call never touches
standalone == <<calc, resp, rpc, srv, org, paging, rand>>

None == <<>>

Max_Min(a, b) == IF a >= b THEN b ELSE a

Max(a, b) == IF a >= b THEN a ELSE b

\* int(x) of Go: conversion of a float to int truncates toward zero
TruncDiv(a, b) == IF a >= 0 THEN a \div b ELSE -((-a) \div b)

\* DATE column: the calendar day of an instant
ToDate(t) == t \div HoursPerDay

\* time.Time.Year() of a stored date
Year(d) == 2024 + (d \div DaysPerYear)

IsZero(t) == t = ZeroTime

calculateDaysRequested_NoInclusive(startDate, endDate) ==
    LET duration == endDate - startDate
        days == TruncDiv(duration, HoursPerDay)
    IN IF days < 0 THEN 0 ELSE days

calculateDaysRequested(startDate, endDate) ==
    LET duration == endDate - startDate
        days == TruncDiv(duration, HoursPerDay) + 1
    IN IF days < 0 THEN 0 ELSE days

\* (the free-text column reason is not part of the model)
FromCreateRequest(emp, lt, s, e) ==
    [employee |-> emp, leaveType |-> lt,
     startDate |-> ToDate(s), endDate |-> ToDate(e),
     days |-> calculateDaysRequested(s, e),
     status |-> "PENDING",
     approver |-> NoApprover, comments |-> "", approvedAt |-> NoTime,
     deleted |-> FALSE]

\* CHECK constraints of table leaves
LeaveConstraints_None(row) == TRUE

LeaveConstraints(row) ==
    /\ row.leaveType \in LeaveTypes
    /\ row.status \in LeaveStatuses
    /\ row.endDate >= row.startDate
    /\ row.days > 0

\* CHECK constraints of table leave_balances
BalanceConstraints(b) ==
    /\ b.total >= 0
    /\ b.used >= 0
    /\ b.used <= b.total

GetRemainingDays(b) ==
    LET remaining == b.total - b.used
    IN IF remaining < 0 THEN 0 ELSE remaining

\* repository.LeaveBalance: WHERE employee_id = ? and, for a year other than 0,
\* AND year = ?; RemainingDays (gorm:"-", not read from the table) is then set
\* from GetRemainingDays on every row found
LeaveBalanceRows_AllYears(table, emp, year) ==
    { [employee |-> k[1], leaveType |-> k[2], year |-> k[3],
       total |-> table[k].total, used |-> table[k].used,
       remaining |-> GetRemainingDays(table[k])] :
         k \in {x \in DOMAIN table : x[1] = emp} }

LeaveBalanceRows(table, emp, year) ==
    { [employee |-> k[1], leaveType |-> k[2], year |-> k[3],
       total |-> table[k].total, used |-> table[k].used,
       remaining |-> GetRemainingDays(table[k])] :
         k \in {x \in DOMAIN table : x[1] = emp /\ (year # 0 => x[3] = year)} }

BalanceKey_EndYear(leave) ==
    <<leave.employee, leave.leaveType, Year(leave.endDate)>>

BalanceKey(leave) == <<leave.employee, leave.leaveType, Year(leave.startDate)>>

\* a row the queries of the repository can see: gorm adds deleted_at IS NULL
Live(id) == id \in DOMAIN leaves /\ ~leaves[id].deleted

LeaveLockedByOther(p, id) == \E q \in Procs \ {p} : id \in DOMAIN wLeave[q]
BalanceLockedByOther(p, k) == \E q \in Procs \ {p} : k \in DOMAIN wBal[q]

Returned(op, id, err) == [op |-> op, id |-> id, err |-> err]
Running(op, id) == [op |-> op, id |-> id, err |-> "running"]

\* fmt.Errorf("cannot approve leave with status: %s", leave.LeaveStatus)
CannotApprove(status) ==
    CASE status = "PENDING" -> "cannot approve leave with status: PENDING"
      [] status = "APPROVED" -> "cannot approve leave with status: APPROVED"
      [] status = "REJECTED" -> "cannot approve leave with status: REJECTED"
      [] status = "CANCELLED" -> "cannot approve leave with status: CANCELLED"

\* fmt.Errorf("cannot reject leave with status: %s", leave.LeaveStatus)
CannotReject(status) ==
    CASE status = "PENDING" -> "cannot reject leave with status: PENDING"
      [] status = "APPROVED" -> "cannot reject leave with status: APPROVED"
      [] status = "REJECTED" -> "cannot reject leave with status: REJECTED"
      [] status = "CANCELLED" -> "cannot reject leave with status: CANCELLED"

\* status.Code(err): OK for nil, the code of an error built by status.Error,
\* Unknown for any other error.  Every error of the repository is built by
\* fmt.Errorf, none carries a gRPC status.
StatusCode(err) == IF err = "ok" THEN "OK" ELSE "Unknown"

\* the status precondition of ApproveLeave and RejectLeave
IsPending_OnlyIfNotApproved(status) == status # "APPROVED"

IsPending(status) == status = "PENDING"

\* columns written by the UPDATE of ApproveLeave
ApproveUpdates(row, approver, comments, now) ==
    [row EXCEPT !.status = "APPROVED", !.approver = approver,
                !.comments = comments, !.approvedAt = now]

\* columns written by the UPDATE of RejectLeave
RejectUpdates_Approves(row, approver, comments, now) ==
    [row EXCEPT !.status = "APPROVED", !.approver = approver,
                !.comments = comments, !.approvedAt = now]

RejectUpdates(row, approver, comments, now) ==
    [row EXCEPT !.status = "REJECTED", !.approver = approver,
                !.comments = comments, !.approvedAt = now]

\* balance.UsedDays += leave.DaysRequested; TotalDays = max(TotalDays, UsedDays)
DebitBalance_NoExtend(b, days) ==
    [b EXCEPT !.used = b.used + days]

DebitBalance(b, days) ==
    LET used == b.used + days
    IN [b EXCEPT !.used = used, !.total = Max(b.total, used)]

\* columns written by repository.Update: the non-zero fields of the request
UpdateColumns(row, lt, s, e) ==
    [row EXCEPT !.leaveType = IF lt # "" THEN lt ELSE @,
                !.startDate = IF ~IsZero(s) THEN ToDate(s) ELSE @,
                !.endDate = IF ~IsZero(e) THEN ToDate(e) ELSE @]

NoFieldsToUpdate(lt, s, e) ==
    lt = "" /\ IsZero(s) /\ IsZero(e)

\* db.Transaction: COMMIT installs the writes of the session, ROLLBACK drops them
Commit(table, writes) ==
    [k \in DOMAIN table |-> IF k \in DOMAIN writes THEN writes[k] ELSE table[k]]

Rollback_KeepsWrites(table, writes) ==
    [k \in DOMAIN table |-> IF k \in DOMAIN writes THEN writes[k] ELSE table[k]]

Rollback(table, writes) == table

EndCall(p, r) ==
    /\ pc' = [pc EXCEPT ![p] = "idle"]
    /\ ret' = [ret EXCEPT ![p] = r]
    /\ args' = [args EXCEPT ![p] = None]
    /\ leaveRead' = [leaveRead EXCEPT ![p] = None]
    /\ balRead' = [balRead EXCEPT ![p] = None]
    /\ wLeave' = [wLeave EXCEPT ![p] = None]
    /\ wBal' = [wBal EXCEPT ![p] = None]

\* the transaction function returned an error: ROLLBACK, the error is returned
Abort(p, err) ==
    /\ leaves' = Rollback(leaves, wLeave[p])
    /\ balances' = Rollback(balances, wBal[p])
    /\ EndCall(p, Returned(ret[p].op, ret[p].id, err))

\* the ledger rows provisioned before the service starts; no code of the
\* repository inserts into leave_balances
ProvisionedKeys ==
    {<<"e1", "ANNUAL", Year(0)>>, <<"e1", "ANNUAL", Year(DaysPerYear)>>,
     <<"e1", "SICK", Year(0)>>, <<"e2", "ANNUAL", Year(0)>>}

\* no call is running
InitSessions ==
    /\ pc = [p \in Procs |-> "idle"]
    /\ args = [p \in Procs |-> None]
    /\ leaveRead = [p \in Procs |-> None]
    /\ balRead = [p \in Procs |-> None]
    /\ wLeave = [p \in Procs |-> None]
    /\ wBal = [p \in Procs |-> None]
    /\ ret = [p \in Procs |-> Returned("none", 0, "none")]

InitTables ==
    /\ leaves = <<>>
    /\ \E u \in 0..MaxTotal :
         balances = [k \in ProvisionedKeys |-> [total |-> MaxTotal, used |-> u]]
    /\ InitSessions

Init ==
    /\ InitTables
    /\ calc = [start |-> 0, end |-> 0, days |-> NoDays]
    /\ resp = None
    /\ rpc = None
    /\ srv = None /\ org = None /\ paging = None /\ rand = None

\* ------------------------------------------------------------ repository.Create
Create(p, emp, lt, s, e) ==
    /\ pc[p] = "idle"
    /\ Len(leaves) < MaxLeaves
    /\ LET row == FromCreateRequest(emp, lt, s, e)
       IN IF LeaveConstraints(row)
          THEN /\ leaves' = Append(leaves, row)
               /\ ret' = [ret EXCEPT ![p] = Returned("Create", 0, "ok")]
          ELSE /\ leaves' = leaves
               /\ ret' = [ret EXCEPT ![p] = Returned("Create", 0, "failed to create")]
    /\ UNCHANGED <<balances, pc, args, leaveRead, balRead, wLeave, wBal, standalone>>

\* ------------------------------------------------------------ repository.Update
Update(p, id, lt, s, e) ==
    /\ pc[p] = "idle"
    /\ IF NoFieldsToUpdate(lt, s, e)
       THEN /\ leaves' = leaves
            /\ ret' = [ret EXCEPT ![p] = Returned("Update", id, "no fields to update")]
       ELSE /\ ~LeaveLockedByOther(p, id)
            /\ IF Live(id)
               THEN LET row == UpdateColumns(leaves[id], lt, s, e)
                    IN IF LeaveConstraints(row)
                       THEN /\ leaves' = [leaves EXCEPT ![id] = row]
                            /\ ret' = [ret EXCEPT ![p] = Returned("Update", id, "ok")]
                       ELSE /\ leaves' = leaves
                            /\ ret' = [ret EXCEPT ![p] =
                                         Returned("Update", id, "failed to update leave request")]
               ELSE /\ leaves' = leaves
                    /\ ret' = [ret EXCEPT ![p] = Returned("Update", id, "ok")]
    /\ UNCHANGED <<balances, pc, args, leaveRead, balRead, wLeave, wBal, standalone>>

\* ------------------------------------------------------------ repository.Delete
Delete_AnyStatus(p, id) ==
    /\ pc[p] = "idle"
    /\ ~LeaveLockedByOther(p, id)
    /\ leaves' = IF Live(id)
                 THEN [leaves EXCEPT ![id].deleted = TRUE]
                 ELSE leaves
    /\ ret' = [ret EXCEPT ![p] = Returned("Delete", id, "ok")]
    /\ UNCHANGED <<balances, pc, args, leaveRead, balRead, wLeave, wBal, standalone>>

Delete(p, id) ==
    /\ pc[p] = "idle"
    /\ ~LeaveLockedByOther(p, id)
    /\ leaves' = IF Live(id) /\ leaves[id].status = "PENDING"
                 THEN [leaves EXCEPT ![id].deleted = TRUE]
                 ELSE leaves
    /\ ret' = [ret EXCEPT ![p] = Returned("Delete", id, "ok")]
    /\ UNCHANGED <<balances, pc, args, leaveRead, balRead, wLeave, wBal, standalone>>

\* ------------------------------------------------------ repository.ApproveLeave
\* BEGIN; tx.First(&leave, id); the status check
ApproveRead(p, id, approver, comments) ==
    /\ pc[p] = "idle"
    /\ UNCHANGED <<leaves, balances, balRead, wLeave, wBal, standalone>>
    /\ IF ~Live(id)
       THEN /\ ret' = [ret EXCEPT ![p] =
                         Returned("ApproveLeave", id, "leave request not found")]
            /\ UNCHANGED <<pc, args, leaveRead>>
       ELSE IF ~IsPending(leaves[id].status)
       THEN /\ ret' = [ret EXCEPT ![p] =
                         Returned("ApproveLeave", id, CannotApprove(leaves[id].status))]
            /\ UNCHANGED <<pc, args, leaveRead>>
       ELSE /\ ret' = [ret EXCEPT ![p] = Running("ApproveLeave", id)]
            /\ pc' = [pc EXCEPT ![p] = "approve_update"]
            /\ args' = [args EXCEPT ![p] = <<[approver |-> approver, comments |-> comments]>>]
            /\ leaveRead' = [leaveRead EXCEPT ![p] = (id :> leaves[id])]

\* tx.Model(&leave).Updates(...): UPDATE leaves SET ... WHERE id = leave.ID,
\* waits for the row lock and then writes the newest committed row version
ApproveUpdate(p, now) ==
    /\ pc[p] = "approve_update"
    /\ LET id == ret[p].id
       IN /\ ~LeaveLockedByOther(p, id)
          /\ wLeave' = [wLeave EXCEPT ![p] =
                          IF Live(id)
                          THEN (id :> ApproveUpdates(leaves[id], args[p][1].approver,
                                                     args[p][1].comments, now))
                          ELSE None]
    /\ pc' = [pc EXCEPT ![p] = "approve_fetch"]
    /\ UNCHANGED <<leaves, balances, args, leaveRead, balRead, wBal, ret, standalone>>

\* tx.Where(employee, type, year of leave.StartDate).First(&balance)
ApproveFetchBalance(p) ==
    /\ pc[p] = "approve_fetch"
    /\ LET k == BalanceKey(leaveRead[p][ret[p].id])
       IN IF k \in DOMAIN balances
          THEN /\ balRead' = [balRead EXCEPT ![p] = (k :> balances[k])]
               /\ pc' = [pc EXCEPT ![p] = "approve_save"]
               /\ UNCHANGED <<leaves, balances, args, leaveRead, wLeave, wBal, ret>>
          ELSE Abort(p, "failed to fetch leave balance")
    /\ UNCHANGED standalone

\* tx.Save(&balance): UPDATE leave_balances SET every column WHERE id = balance.ID
ApproveSaveBalance(p) ==
    /\ pc[p] = "approve_save"
    /\ LET k == CHOOSE x \in DOMAIN balRead[p] : TRUE
           b == DebitBalance(balRead[p][k], leaveRead[p][ret[p].id].days)
       IN /\ ~BalanceLockedByOther(p, k)
          /\ IF BalanceConstraints(b)
             THEN /\ wBal' = [wBal EXCEPT ![p] = (k :> b)]
                  /\ pc' = [pc EXCEPT ![p] = "approve_commit"]
                  /\ UNCHANGED <<leaves, balances, args, leaveRead, balRead, wLeave, ret>>
             ELSE Abort(p, "failed to update leave balance")
    /\ UNCHANGED standalone

\* tx.Save(&balance) returns an error of the database or of the connection
ApproveSaveBalanceFails(p) ==
    /\ pc[p] = "approve_save"
    /\ Abort(p, "failed to update leave balance")
    /\ UNCHANGED standalone

\* the transaction function returned nil: COMMIT
ApproveCommit(p) ==
    /\ pc[p] = "approve_commit"
    /\ leaves' = Commit(leaves, wLeave[p])
    /\ balances' = Commit(balances, wBal[p])
    /\ EndCall(p, Returned("ApproveLeave", ret[p].id, "ok"))
    /\ UNCHANGED standalone

\* ------------------------------------------------------- repository.RejectLeave
RejectRead(p, id, approver, comments) ==
    /\ pc[p] = "idle"
    /\ UNCHANGED <<leaves, balances, balRead, wLeave, wBal, standalone>>
    /\ IF ~Live(id)
       THEN /\ ret' = [ret EXCEPT ![p] =
                         Returned("RejectLeave", id, "leave request not found")]
            /\ UNCHANGED <<pc, args, leaveRead>>
       ELSE IF ~IsPending(leaves[id].status)
       THEN /\ ret' = [ret EXCEPT ![p] =
                         Returned("RejectLeave", id, CannotReject(leaves[id].status))]
            /\ UNCHANGED <<pc, args, leaveRead>>
       ELSE /\ ret' = [ret EXCEPT ![p] = Running("RejectLeave", id)]
            /\ pc' = [pc EXCEPT ![p] = "reject_update"]
            /\ args' = [args EXCEPT ![p] = <<[approver |-> approver, comments |-> comments]>>]
            /\ leaveRead' = [leaveRead EXCEPT ![p] = (id :> leaves[id])]

RejectUpdate(p, now) ==
    /\ pc[p] = "reject_update"
    /\ LET id == ret[p].id
       IN /\ ~LeaveLockedByOther(p, id)
          /\ wLeave' = [wLeave EXCEPT ![p] =
                          IF Live(id)
                          THEN (id :> RejectUpdates(leaves[id], args[p][1].approver,
                                                    args[p][1].comments, now))
                          ELSE None]
    /\ pc' = [pc EXCEPT ![p] = "reject_commit"]
    /\ UNCHANGED <<leaves, balances, args, leaveRead, balRead, wBal, ret, standalone>>

RejectCommit_DebitsLedger(p) ==
    /\ pc[p] = "reject_commit"
    /\ leaves' = Commit(leaves, wLeave[p])
    /\ LET leave == leaveRead[p][ret[p].id]
           k == BalanceKey(leave)
       IN balances' = IF k \in DOMAIN balances
                      THEN [balances EXCEPT ![k] = DebitBalance(@, leave.days)]
                      ELSE balances
    /\ EndCall(p, Returned("RejectLeave", ret[p].id, "ok"))
    /\ UNCHANGED standalone

RejectCommit(p) ==
    /\ pc[p] = "reject_commit"
    /\ leaves' = Commit(leaves, wLeave[p])
    /\ balances' = Commit(balances, wBal[p])
    /\ EndCall(p, Returned("RejectLeave", ret[p].id, "ok"))
    /\ UNCHANGED standalone

\* -------------------------------------------------------------- repository.List
\* SELECT count(*) and SELECT ... OFFSET LIMIT on leaves; the page is not kept
List(p) ==
    /\ pc[p] = "idle"
    /\ ret' = [ret EXCEPT ![p] = Returned("List", 0, "ok")]
    /\ UNCHANGED <<leaves, balances, pc, args, leaveRead, balRead, wLeave, wBal, standalone>>

\* ------------------------------------------------------ repository.LeaveBalance
\* SELECT on leave_balances; what the call does to the tables and the session
LeaveBalanceCall(p, emp, year) ==
    /\ pc[p] = "idle"
    /\ ret' = [ret EXCEPT ![p] = Returned("LeaveBalance", 0, "ok")]
    /\ UNCHANGED <<leaves, balances, pc, args, leaveRead, balRead, wLeave, wBal, calc, rpc, srv, org, paging, rand>>

\* the call, its response not kept
LeaveBalance(p, emp, year) ==
    /\ LeaveBalanceCall(p, emp, year)
    /\ UNCHANGED resp

\* the call, its response kept in resp
LeaveBalanceAnswer(p, emp, year) ==
    /\ LeaveBalanceCall(p, emp, year)
    /\ resp' = [employee |-> emp, year |-> year,
                rows |-> LeaveBalanceRows(balances, emp, year)]

\* --------------------------------------------------------------- specifications
LeaveIds == 1..MaxLeaves

\* the years a client asks LeaveBalance for; 0 is "every year"
QueryYears == {0} \cup {k[3] : k \in ProvisionedKeys}

Step(p) ==
    \/ \E emp \in Employees, lt \in LeaveTypes, s \in Times, e \in Times :
         Create(p, emp, lt, s, e)
    \/ \E id \in LeaveIds, lt \in LeaveTypes \cup {""},
          s \in Times \cup {ZeroTime}, e \in Times \cup {ZeroTime} :
         Update(p, id, lt, s, e)
    \/ \E id \in LeaveIds : Delete(p, id)
    \/ \E id \in LeaveIds, a \in Approvers, c \in CommentTexts : ApproveRead(p, id, a, c)
    \/ \E now \in Clock : ApproveUpdate(p, now)
    \/ ApproveFetchBalance(p)
    \/ ApproveSaveBalance(p)
    \/ ApproveSaveBalanceFails(p)
    \/ ApproveCommit(p)
    \/ \E id \in LeaveIds, a \in Approvers, c \in CommentTexts : RejectRead(p, id, a, c)
    \/ \E now \in Clock : RejectUpdate(p, now)
    \/ RejectCommit(p)
    \/ List(p)
    \/ \E emp \in Employees, y \in QueryYears : LeaveBalance(p, emp, y)

\* calls of different sessions interleave statement by statement
Next == \E p \in Procs : Step(p)

Spec == Init /\ [][Next]_vars

\* one call at a time: a session moves only while every other session is idle
Alone(p) == \A q \in Procs \ {p} : pc[q] = "idle"

NextSeq ==
    \E p \in Procs :
        \/ Alone(p) /\ \E emp \in Employees, lt \in LeaveTypes, s \in Times, e \in Times :
                          Create(p, emp, lt, s, e)
        \/ Alone(p) /\ \E id \in LeaveIds, lt \in LeaveTypes \cup {""},
                           s \in Times \cup {ZeroTime}, e \in Times \cup {ZeroTime} :
                          Update(p, id, lt, s, e)
        \/ Alone(p) /\ \E id \in LeaveIds : Delete(p, id)
        \/ Alone(p) /\ \E id \in LeaveIds, a \in Approvers, c \in CommentTexts :
                          ApproveRead(p, id, a, c)
        \/ Alone(p) /\ \E now \in Clock : ApproveUpdate(p, now)
        \/ Alone(p) /\ ApproveFetchBalance(p)
        \/ Alone(p) /\ ApproveSaveBalance(p)
        \/ Alone(p) /\ ApproveSaveBalanceFails(p)
        \/ Alone(p) /\ ApproveCommit(p)
        \/ Alone(p) /\ \E id \in LeaveIds, a \in Approvers, c \in CommentTexts :
                          RejectRead(p, id, a, c)
        \/ Alone(p) /\ \E now \in Clock : RejectUpdate(p, now)
        \/ Alone(p) /\ RejectCommit(p)
        \/ Alone(p) /\ List(p)
        \/ Alone(p) /\ \E emp \in Employees, y \in QueryYears : LeaveBalance(p, emp, y)

SpecSeq == Init /\ [][NextSeq]_vars

\* ------------------------------------------- calculateDaysRequested on its own
CalcTimes == 0..MaxCalcHour

InitDays ==
    /\ InitTables
    /\ \E s \in CalcTimes, e \in CalcTimes :
         calc = [start |-> s, end |-> e, days |-> NoDays]
    /\ resp = None
    /\ rpc = None
    /\ srv = None /\ org = None /\ paging = None /\ rand = None

Calculate ==
    /\ calc.days = NoDays
    /\ calc' = [calc EXCEPT !.days = calculateDaysRequested(calc.start, calc.end)]
    /\ UNCHANGED <<dbVars, resp, rpc, srv, org, paging, rand>>

NextDays == Calculate

SpecDays == InitDays /\ [][NextDays]_vars

\* ------------------------------------------------- repository.LeaveBalance alone
LedgerEmployees == {"e1", "e2"}

LedgerKeys == {<<e, "ANNUAL", y>> : e \in LedgerEmployees, y \in QueryYears \ {0}}

\* the rows the CHECK constraints of leave_balances admit
LedgerRows ==
    {b \in [total : 0..MaxTotal, used : 0..MaxTotal] : BalanceConstraints(b)}

InitBalance ==
    /\ leaves = <<>>
    /\ \E keys \in SUBSET LedgerKeys : balances \in [keys -> LedgerRows]
    /\ InitSessions
    /\ calc = [start |-> 0, end |-> 0, days |-> NoDays]
    /\ resp = None
    /\ rpc = None
    /\ srv = None /\ org = None /\ paging = None /\ rand = None

NextBalance ==
    \E p \in Procs, emp \in LedgerEmployees, y \in QueryYears :
        LeaveBalanceAnswer(p, emp, y)

SpecBalance == InitBalance /\ [][NextBalance]_vars

\* ------------------------------------------------- the unary interceptor chain
\* the strings the middleware takes apart are sequences of characters
Bearer == <<"B", "e", "a", "r", "e", "r">>
BearerSpace == Bearer \o <<" ">>

\* strings.HasPrefix, strings.TrimPrefix
HasPrefix(str, prefix) ==
    Len(str) >= Len(prefix) /\ SubSeq(str, 1, Len(prefix)) = prefix

TrimPrefix(str, prefix) ==
    IF HasPrefix(str, prefix) THEN SubSeq(str, Len(prefix) + 1, Len(str)) ELSE str

\* the metadata key AuthFunc reads
AuthHeaderKey == "authrorization"

\* the keys a client sends: the header Authorization (gRPC lower-cases metadata
\* keys) and the key AuthFunc reads
MetadataKeys == {"authorization", AuthHeaderKey}

\* header values a client sends: "Bearer t", "Bearer ", "Bearer", "BearerX",
\* "Basic t" and the empty string
HeaderValues ==
    {BearerSpace \o <<"t">>, BearerSpace, Bearer, Bearer \o <<"X">>,
     <<"B", "a", "s", "i", "c", " ", "t">>, <<>>}

\* metadata.FromIncomingContext: (md, ok)
Metadata ==
    {[present |-> FALSE, entries |-> <<>>]}
    \cup {[present |-> TRUE, entries |-> e] :
             e \in UNION {[K -> HeaderValues] : K \in SUBSET MetadataKeys}}

LoginMethod == "/hr.auth.v1.AuthService/Login"
RefreshTokenMethod == "/hr.auth.v1.AuthService/RefreshToken"
Methods == {LoginMethod, RefreshTokenMethod, "/hr.employee.v1.EmployeeService/GetEmployee"}

publicEndpoints == {"/hr.auth.v1.AuthService/Login", "/hr.auth.v1.AuthServce/RefreshToken"}

SkipAuth(fullMethodName) == fullMethodName \in publicEndpoints

StatusError(code, msg) == [code |-> code, msg |-> msg]
NoError == StatusError("OK", "")
NoResponse == "nil"
NoPanic == "none"
PanicValue == "runtime error: nil pointer dereference"

\* context.WithValue(ctx, contextKey("token"), token): the key is of type contextKey
TokenKey == [type |-> "contextKey", name |-> "token"]

\* AuthFunc: the error it returns and the values it adds to the context
AuthFunc(md) ==
    IF ~md.present
    THEN [err |-> StatusError("Unauthenticated", "missing metadata"), ctx |-> None]
    ELSE IF AuthHeaderKey \notin DOMAIN md.entries
    THEN [err |-> StatusError("Unauthenticated", "missing authorization header"), ctx |-> None]
    ELSE LET authHeader == md.entries[AuthHeaderKey]
         IN IF ~HasPrefix(authHeader, Bearer)
            THEN [err |-> StatusError("Unauthenticated", "invalid authorization format"),
                  ctx |-> None]
            ELSE LET token == TrimPrefix(authHeader, BearerSpace)
                 IN IF token = <<>>
                    THEN [err |-> StatusError("Unauthenticated", "missing token"), ctx |-> None]
                    ELSE [err |-> NoError, ctx |-> (TokenKey :> token)]

\* GetTokenFromContext: ctx.Value("token").(string), the key is the plain
\* string "token"; a context key matches only a key of the same type
GetTokenFromContext(ctx) ==
    LET key == [type |-> "string", name |-> "token"]
    IN IF key \in DOMAIN ctx
       THEN [token |-> ctx[key], ok |-> TRUE]
       ELSE [token |-> <<>>, ok |-> FALSE]

\* the deferred function of RecoveryInterceptor: the error that replaces a panic
RecoveredError_LeaksPanic(r) == StatusError("Internal", r)

RecoveredError(r) == StatusError("Internal", "internal server error")

\* grpcmiddleware.ChainUnaryServer of Server.Start: the first wraps all the others
Chain_AuthInnermost ==
    <<"grpctags", "grpclogrus", "grpcrecovery", "RecoveryInterceptor", "grpcauth">>

Chain == <<"grpctags", "grpclogrus", "grpcauth", "grpcrecovery", "RecoveryInterceptor">>

\* what a handler does with a call
HandlerOutcomes == {"returns", "fails", "panics"}

\* the call is in interceptor name, on its way in ("in") or back ("out")
At(name, dir) ==
    /\ rpc # None
    /\ rpc.dir = dir
    /\ rpc.depth \in 1..Len(Chain)
    /\ Chain[rpc.depth] = name

\* handler(ctx, req) inside an interceptor: the next of the chain runs
CallNext(r, name) ==
    [r EXCEPT !.depth = @ + 1, !.trace = Append(@, name)]

\* the interceptor returns result to the one that called it
Return(r, name, result) ==
    [r EXCEPT !.depth = @ - 1,
              !.dir = IF r.depth = 1 THEN "done" ELSE "out",
              !.panic = NoPanic,
              !.result = result,
              !.returned = (name :> result) @@ @]

\* a panic passes through an interceptor that has no recover; out of the
\* outermost one it ends the process
Propagate(r) ==
    [r EXCEPT !.depth = @ - 1,
              !.dir = IF r.depth = 1 THEN "crashed" ELSE "out"]

\* a unary call arrives at the server
Receive(method, md) ==
    /\ IF rpc = None THEN TRUE ELSE rpc.dir = "done"
    /\ rpc' = [method |-> method, md |-> md, depth |-> 1, dir |-> "in",
               ctx |-> None, handled |-> "no",
               handlerResult |-> [resp |-> NoResponse, err |-> NoError],
               result |-> [resp |-> NoResponse, err |-> NoError],
               panic |-> NoPanic, returned |-> None, trace |-> <<>>, log |-> <<>>]
    /\ UNCHANGED <<dbVars, calc, resp, srv, org, paging, rand>>

\* an interceptor that only calls the next one and returns what it returned
PassIn(name) ==
    /\ At(name, "in")
    /\ rpc' = CallNext(rpc, name)
    /\ UNCHANGED <<dbVars, calc, resp, srv, org, paging, rand>>

PassOut(name) ==
    /\ At(name, "out")
    /\ rpc' = IF rpc.panic # NoPanic THEN Propagate(rpc)
              ELSE Return(rpc, name, rpc.result)
    /\ UNCHANGED <<dbVars, calc, resp, srv, org, paging, rand>>

\* grpctags.UnaryServerInterceptor()
TagsIn == PassIn("grpctags")
TagsOut == PassOut("grpctags")

\* grpclogrus.UnaryServerInterceptor(entry): after the call it logs its code
LogrusIn == PassIn("grpclogrus")

LogrusOut ==
    /\ At("grpclogrus", "out")
    /\ rpc' = IF rpc.panic # NoPanic THEN Propagate(rpc)
              ELSE [Return(rpc, "grpclogrus", rpc.result) EXCEPT
                       !.log = Append(@, [logger |-> "grpclogrus",
                                          msg |-> "finished unary call",
                                          method |-> rpc.method,
                                          detail |-> rpc.result.err.code])]
    /\ UNCHANGED <<dbVars, calc, resp, srv, org, paging, rand>>

\* grpcauth.UnaryServerInterceptor(middleware.AuthFunc): no service of the server
\* overrides the function; on an error it returns nil and the error
AuthIn ==
    /\ At("grpcauth", "in")
    /\ LET auth == AuthFunc(rpc.md)
       IN rpc' = IF auth.err # NoError
                 THEN [Return(rpc, "grpcauth", [resp |-> NoResponse, err |-> auth.err])
                          EXCEPT !.trace = Append(@, "grpcauth")]
                 ELSE [CallNext(rpc, "grpcauth") EXCEPT !.ctx = auth.ctx @@ @]
    /\ UNCHANGED <<dbVars, calc, resp, srv, org, paging, rand>>

AuthOut == PassOut("grpcauth")

\* grpcrecovery.UnaryServerInterceptor(): a panic becomes an Internal error
\* that carries the panic value
GrpcRecoveryIn == PassIn("grpcrecovery")

GrpcRecoveryOut ==
    /\ At("grpcrecovery", "out")
    /\ rpc' = IF rpc.panic # NoPanic
              THEN Return(rpc, "grpcrecovery",
                          [resp |-> NoResponse, err |-> StatusError("Internal", rpc.panic)])
              ELSE Return(rpc, "grpcrecovery", rpc.result)
    /\ UNCHANGED <<dbVars, calc, resp, srv, org, paging, rand>>

\* middleware.RecoveryInterceptor
RecoveryIn == PassIn("RecoveryInterceptor")

RecoveryOut ==
    /\ At("RecoveryInterceptor", "out")
    /\ rpc' = IF rpc.panic # NoPanic
              THEN [Return(rpc, "RecoveryInterceptor",
                           [resp |-> NoResponse, err |-> RecoveredError(rpc.panic)])
                       EXCEPT !.log = Append(@, [logger |-> "RecoveryInterceptor",
                                                 msg |-> "Panic recovered",
                                                 method |-> rpc.method,
                                                 detail |-> rpc.panic])]
              ELSE Return(rpc, "RecoveryInterceptor", rpc.result)
    /\ UNCHANGED <<dbVars, calc, resp, srv, org, paging, rand>>

\* the handler of the method: it returns a response, returns an error or panics
Handler(outcome) ==
    /\ rpc # None
    /\ rpc.dir = "in"
    /\ rpc.depth = Len(Chain) + 1
    /\ LET called == [rpc EXCEPT !.depth = @ - 1, !.dir = "out",
                                 !.trace = Append(@, "handler")]
           result == IF outcome = "returns"
                     THEN [resp |-> "response", err |-> NoError]
                     ELSE [resp |-> NoResponse,
                           err |-> StatusError("NotFound", "employee not found")]
       IN rpc' = IF outcome = "panics"
                 THEN [called EXCEPT !.handled = "panicked", !.panic = PanicValue]
                 ELSE [called EXCEPT !.handled = "returned", !.handlerResult = result,
                                     !.result = result]
    /\ UNCHANGED <<dbVars, calc, resp, srv, org, paging, rand>>

NextRpc ==
    \/ \E method \in Methods, md \in Metadata : Receive(method, md)
    \/ TagsIn
    \/ LogrusIn
    \/ AuthIn
    \/ GrpcRecoveryIn
    \/ RecoveryIn
    \/ \E outcome \in HandlerOutcomes : Handler(outcome)
    \/ RecoveryOut
    \/ GrpcRecoveryOut
    \/ AuthOut
    \/ LogrusOut
    \/ TagsOut

SpecRpc == Init /\ [][NextRpc]_vars

\* ------------------------------------------------ Server.Start and shutdown
notSrv == <<dbVars, calc, resp, rpc, org, paging, rand>>

ServeError == "gRPC server error"
DeadlineExceeded == "context deadline exceeded"

\* errChan <- err on a channel made with make(chan error, 1)
CanSend_Unbuffered(ch) == srv.main = "parked"

CanSend(ch) == Len(ch) < ErrChanCap

\* a goroutine blocked in a select is woken by the first case that gets ready
WakeMain(s, where, case) ==
    IF s.main = where /\ s.woke = "none" THEN [s EXCEPT !.woke = case] ELSE s

\* the case a select takes:
\*   case err := <-errChan: return err
\*   case <-signalCh: shutdown() makes its context and starts the goroutine
\*                    that runs GracefulStop
\*   case <-shutdownCh: return nil
\*   case <-ctx.Done(): s.grpcServer.Stop(); return ctx.Err()
Take(s, case) ==
    CASE case = "error" ->
           [s EXCEPT !.errChan = Tail(@), !.result = ServeError,
                     !.main = "returned", !.woke = "none"]
      [] case = "signal" ->
           [s EXCEPT !.signalCh = 0, !.main = "stop_select",
                     !.stopper = "spawned", !.ticks = 0, !.woke = "none"]
      [] case = "closed" ->
           [s EXCEPT !.result = "nil", !.main = "returned", !.woke = "none"]
      [] case = "timeout" ->
           [s EXCEPT !.stopped = "forced", !.inflight = 0,
                     !.result = DeadlineExceeded,
                     !.main = "returned", !.woke = "none"]

\* Start has made errChan, started the goroutine that runs Serve, registered
\* signalCh and is about to run its select
InitShutdown ==
    /\ InitTables
    /\ calc = [start |-> 0, end |-> 0, days |-> NoDays]
    /\ resp = None /\ rpc = None /\ org = None /\ paging = None /\ rand = None
    /\ srv = [main |-> "select", serve |-> "serving", errChan |-> <<>>,
              signalCh |-> 0, woke |-> "none", stopper |-> "none",
              stopped |-> "no", inflight |-> 0, ticks |-> 0, result |-> "none",
              sigSeen |-> FALSE, closedAt |-> NoTime]

\* s.grpcServer.Serve(listener) returns an error
ServeFails ==
    /\ srv.serve = "serving" /\ srv.stopped = "no"
    /\ srv' = [srv EXCEPT !.serve = "failed"]
    /\ UNCHANGED notSrv

\* Serve returns nil once Stop or GracefulStop has been called
ServeReturns ==
    /\ srv.serve = "serving" /\ srv.stopped # "no"
    /\ srv' = [srv EXCEPT !.serve = "exited"]
    /\ UNCHANGED notSrv

\* errChan <- fmt.Errorf("gRPC server error: %w", err)
ServeReport ==
    /\ srv.serve = "failed"
    /\ CanSend(srv.errChan)
    /\ srv' = WakeMain([srv EXCEPT !.serve = "exited",
                                   !.errChan = Append(@, ServeError)],
                       "parked", "error")
    /\ UNCHANGED notSrv

\* SIGINT or SIGTERM: signal.Notify puts it into signalCh unless it is full
Signal ==
    /\ srv.main # "returned"
    /\ srv.signalCh = 0
    /\ srv' = WakeMain([srv EXCEPT !.signalCh = 1, !.sigSeen = TRUE],
                       "parked", "signal")
    /\ UNCHANGED notSrv

\* the select of Start: one of the ready cases, or wait
MainSelect ==
    /\ srv.main = "select"
    /\ LET ready == {c \in {"error"} : Len(srv.errChan) > 0}
                    \cup {c \in {"signal"} : srv.signalCh > 0}
       IN IF ready = {} THEN srv' = [srv EXCEPT !.main = "parked"]
          ELSE \E c \in ready : srv' = Take(srv, c)
    /\ UNCHANGED notSrv

MainWake ==
    /\ srv.main = "parked"
    /\ srv.woke # "none"
    /\ srv' = Take(srv, srv.woke)
    /\ UNCHANGED notSrv

\* s.grpcServer.GracefulStop() starts: the listeners close, no new call
StopperBegin ==
    /\ srv.stopper = "spawned"
    /\ srv' = [srv EXCEPT !.stopper = "graceful",
                          !.stopped = IF @ = "no" THEN "draining" ELSE @]
    /\ UNCHANGED notSrv

\* GracefulStop returns when no call is pending; close(shutdownCh)
StopperDone ==
    /\ srv.stopper = "graceful"
    /\ srv.inflight = 0
    /\ srv' = WakeMain([srv EXCEPT !.stopper = "closed",
                                   !.stopped = IF @ = "forced" THEN @ ELSE "graceful",
                                   !.closedAt = srv.ticks],
                       "stop_parked", "closed")
    /\ UNCHANGED notSrv

\* the select of shutdown
MainStopSelect ==
    /\ srv.main = "stop_select"
    /\ LET ready == {c \in {"closed"} : srv.stopper = "closed"}
                    \cup {c \in {"timeout"} : srv.ticks = ShutdownTimeout}
       IN IF ready = {} THEN srv' = [srv EXCEPT !.main = "stop_parked"]
          ELSE \E c \in ready : srv' = Take(srv, c)
    /\ UNCHANGED notSrv

MainStopWake ==
    /\ srv.main = "stop_parked"
    /\ srv.woke # "none"
    /\ srv' = Take(srv, srv.woke)
    /\ UNCHANGED notSrv

\* one second of context.WithTimeout(ctx, 30*time.Second) passes while shutdown
\* waits; at the last one ctx.Done() is closed
Tick ==
    /\ srv.main = "stop_parked"
    /\ srv.ticks < ShutdownTimeout
    /\ srv' = IF srv.ticks + 1 = ShutdownTimeout
              THEN WakeMain([srv EXCEPT !.ticks = @ + 1], "stop_parked", "timeout")
              ELSE [srv EXCEPT !.ticks = @ + 1]
    /\ UNCHANGED notSrv

\* a call of a client starts, a call ends
CallArrives ==
    /\ srv.serve = "serving" /\ srv.stopped = "no"
    /\ srv.inflight < MaxInflight
    /\ srv' = [srv EXCEPT !.inflight = @ + 1]
    /\ UNCHANGED notSrv

CallFinishes ==
    /\ srv.inflight > 0
    /\ srv' = [srv EXCEPT !.inflight = @ - 1]
    /\ UNCHANGED notSrv

NextShutdown ==
    \/ ServeFails
    \/ ServeReturns
    \/ ServeReport
    \/ Signal
    \/ MainSelect
    \/ MainWake
    \/ StopperBegin
    \/ StopperDone
    \/ MainStopSelect
    \/ MainStopWake
    \/ Tick
    \/ CallArrives
    \/ CallFinishes

\* goroutines that can run do run and time passes; signals, failures of Serve
\* and the calls of clients are under no obligation
FairShutdown ==
    /\ WF_vars(ServeReturns) /\ WF_vars(ServeReport)
    /\ WF_vars(MainSelect) /\ WF_vars(MainWake)
    /\ WF_vars(StopperBegin) /\ WF_vars(StopperDone)
    /\ WF_vars(MainStopSelect) /\ WF_vars(MainStopWake)
    /\ WF_vars(Tick)

SpecShutdown == InitShutdown /\ [][NextShutdown]_vars /\ FairShutdown

\* ------------------------------- CreateEmployee and CreateDepartment
notOrg == <<dbVars, calc, resp, rpc, srv, paging, rand>>

NoCall == [op |-> "none", pc |-> "idle", key |-> None, code |-> "none",
           held |-> FALSE]

\* gorm adds deleted_at IS NULL to every First on a model with DeletedAt
Visible(rows) == {r \in rows : ~r.deleted}

\* repository.GetByEmail, GetByEmployeeID, GetByName: the row or nil
GetByEmail(email) == {r \in Visible(org.employees) : r.email = email}
GetByEmployeeID(eid) == {r \in Visible(org.employees) : r.employeeID = eid}
GetByName(name) == {r \in Visible(org.departments) : r.name = name}

\* the UNIQUE constraints of the tables: they cover every row of the table,
\* the soft-deleted ones included
EmployeeUnique(e) ==
    \A r \in org.employees : r.email # e.email /\ r.employeeID # e.employeeID
DepartmentUnique(d) ==
    \A r \in org.departments : r.name # d.name

OrgReturn(p, code, held) ==
    org' = [org EXCEPT !.calls[p].pc = "idle", !.calls[p].code = code,
                       !.calls[p].held = held]

InitOrg ==
    /\ leaves = <<>>
    /\ balances = [k \in ProvisionedKeys |-> [total |-> MaxTotal, used |-> 0]]
    /\ InitSessions
    /\ calc = [start |-> 0, end |-> 0, days |-> NoDays]
    /\ resp = None /\ rpc = None /\ srv = None /\ paging = None /\ rand = None
    /\ org = [employees |-> {}, departments |-> {},
              calls |-> [p \in Procs |-> NoCall]]

\* service.CreateEmployee up to the GetByEmail check
CreateEmployeeCheckEmail(p, email, eid) ==
    /\ org.calls[p].pc = "idle"
    /\ LET call == [op |-> "CreateEmployee", pc |-> "check_employee_id",
                    key |-> [email |-> email, employeeID |-> eid],
                    code |-> "none", held |-> FALSE]
       IN  IF GetByEmail(email) # {}
           THEN org' = [org EXCEPT !.calls[p] =
                          [call EXCEPT !.pc = "idle", !.code = "AlreadyExists",
                                       !.held = TRUE]]
           ELSE org' = [org EXCEPT !.calls[p] = call]
    /\ UNCHANGED notOrg

\* service.CreateEmployee: the GetByEmployeeID check
CreateEmployeeCheckID(p) ==
    /\ org.calls[p].pc = "check_employee_id"
    /\ IF GetByEmployeeID(org.calls[p].key.employeeID) # {}
       THEN OrgReturn(p, "AlreadyExists", TRUE)
       ELSE org' = [org EXCEPT !.calls[p].pc = "create_employee"]
    /\ UNCHANGED notOrg

\* service.CreateEmployee: repo.Create, the INSERT
CreateEmployeeInsert(p) ==
    /\ org.calls[p].pc = "create_employee"
    /\ LET e == [email |-> org.calls[p].key.email,
                 employeeID |-> org.calls[p].key.employeeID,
                 deleted |-> FALSE]
       IN  IF EmployeeUnique(e)
           THEN org' = [org EXCEPT !.employees = @ \cup {e},
                                   !.calls[p].pc = "idle",
                                   !.calls[p].code = "OK"]
           ELSE OrgReturn(p, "Internal", TRUE)
    /\ UNCHANGED notOrg

\* service.CreateDepartment up to the GetByName check
CreateDepartmentCheck(p, name) ==
    /\ org.calls[p].pc = "idle"
    /\ LET call == [op |-> "CreateDepartment", pc |-> "create_department",
                    key |-> [name |-> name], code |-> "none", held |-> FALSE]
       IN  IF GetByName(name) # {}
           THEN org' = [org EXCEPT !.calls[p] =
                          [call EXCEPT !.pc = "idle", !.code = "AlreadyExists",
                                       !.held = TRUE]]
           ELSE org' = [org EXCEPT !.calls[p] = call]
    /\ UNCHANGED notOrg

\* service.CreateDepartment: repo.Create, the INSERT
CreateDepartmentInsert(p) ==
    /\ org.calls[p].pc = "create_department"
    /\ LET d == [name |-> org.calls[p].key.name, deleted |-> FALSE]
       IN  IF DepartmentUnique(d)
           THEN org' = [org EXCEPT !.departments = @ \cup {d},
                                   !.calls[p].pc = "idle",
                                   !.calls[p].code = "OK"]
           ELSE OrgReturn(p, "Internal", TRUE)
    /\ UNCHANGED notOrg

\* service.DeleteEmployee: GetByID, then the soft delete
DeleteEmployee(p, eid) ==
    /\ org.calls[p].pc = "idle"
    /\ IF GetByEmployeeID(eid) = {}
       THEN org' = [org EXCEPT !.calls[p] =
                      [NoCall EXCEPT !.op = "DeleteEmployee",
                                     !.code = "NotFound"]]
       ELSE org' = [org EXCEPT
                      !.employees = {IF r.employeeID = eid /\ ~r.deleted
                                     THEN [r EXCEPT !.deleted = TRUE]
                                     ELSE r : r \in org.employees},
                      !.calls[p] = [NoCall EXCEPT !.op = "DeleteEmployee",
                                                  !.code = "OK"]]
    /\ UNCHANGED notOrg

\* department service.DeleteDocument: the soft delete, which matches no row
\* without an error when the department is not there
DeleteDocument(p, name) ==
    /\ org.calls[p].pc = "idle"
    /\ org' = [org EXCEPT
                 !.departments = {IF r.name = name /\ ~r.deleted
                                  THEN [r EXCEPT !.deleted = TRUE]
                                  ELSE r : r \in org.departments},
                 !.calls[p] = [NoCall EXCEPT !.op = "DeleteDocument",
                                             !.code = "OK"]]
    /\ UNCHANGED notOrg

NextOrg ==
    \E p \in Procs :
        \/ \E email \in {"a@x", "b@x"}, eid \in {"E1", "E2"} :
               CreateEmployeeCheckEmail(p, email, eid)
        \/ CreateEmployeeCheckID(p)
        \/ CreateEmployeeInsert(p)
        \/ \E name \in {"ops", "lab"} : CreateDepartmentCheck(p, name)
        \/ CreateDepartmentInsert(p)
        \/ \E eid \in {"E1", "E2"} : DeleteEmployee(p, eid)
        \/ \E name \in {"ops", "lab"} : DeleteDocument(p, name)

SpecOrg == InitOrg /\ [][NextOrg]_vars

\* ------------------------------------------------- pagination of the list calls
\* the values a list call hands to its repository
Handed(op, inPage, inPageSize, page, pageSize) ==
    [op |-> op, inPage |-> inPage, inPageSize |-> inPageSize,
     page |-> page, pageSize |-> pageSize]

InitPaging ==
    /\ leaves = <<>>
    /\ balances = [k \in ProvisionedKeys |-> [total |-> MaxTotal, used |-> 0]]
    /\ InitSessions
    /\ calc = [start |-> 0, end |-> 0, days |-> NoDays]
    /\ resp = None /\ rpc = None /\ srv = None /\ org = None /\ rand = None
    /\ paging = Handed("none", 1, 1, 1, 1)

\* employee service.ListEmployees
ListEmployees(inPage, inPageSize) ==
    LET page == IF inPage < 1 THEN 1 ELSE inPage
        size1 == IF inPageSize < 1 THEN DefaultPageSize ELSE inPageSize
        size2 == IF page > MaxPageSize THEN MaxPageSize ELSE size1
    IN  /\ paging' = Handed("ListEmployees", inPage, inPageSize, page, size2)
        /\ UNCHANGED <<dbVars, calc, resp, rpc, srv, org, rand>>

\* employee service.GetEmployeesByDepartment
GetEmployeesByDepartment(inPage, inPageSize) ==
    LET page == IF inPage < 1 THEN 1 ELSE inPage
        size1 == IF inPageSize < 1 THEN DefaultPageSize ELSE inPageSize
        size2 == IF size1 > MaxPageSize THEN MaxPageSize ELSE size1
    IN  /\ paging' = Handed("GetEmployeesByDepartment", inPage, inPageSize,
                            page, size2)
        /\ UNCHANGED <<dbVars, calc, resp, rpc, srv, org, rand>>

\* department service.ListDepartments
ListDepartments(inPage, inPageSize) ==
    LET page == IF inPage < 1 THEN 1 ELSE inPage
        size1 == IF inPageSize < 1 THEN DefaultPageSize ELSE inPageSize
        size2 == IF size1 > MaxPageSize THEN MaxPageSize ELSE size1
    IN  /\ paging' = Handed("ListDepartments", inPage, inPageSize, page, size2)
        /\ UNCHANGED <<dbVars, calc, resp, rpc, srv, org, rand>>

\* the handlers convert the int32 fields of the request to int
\* the values around the limits the services test: 1 and MaxPageSize
NextPaging ==
    \E inPage \in (-1..2) \cup ((MaxPageSize - 1)..MaxPageInput),
       inPageSize \in (-1..2) \cup ((MaxPageSize - 1)..MaxPageInput) :
        \/ ListEmployees(inPage, inPageSize)
        \/ GetEmployeesByDepartment(inPage, inPageSize)
        \/ ListDepartments(inPage, inPageSize)

SpecPaging == InitPaging /\ [][NextPaging]_vars

\* ---------------------------------------------- request ids of the logging chain
\* b := make([]byte, length), all zero, and the loop is about to start
RandStart(caller, length) ==
    [caller |-> caller, pc |-> "loop", length |-> length, i |-> 0,
     b |-> [j \in 1..length |-> "zero"], requestID |-> None,
     handled |-> FALSE]

InitRand ==
    /\ leaves = <<>>
    /\ balances = [k \in ProvisionedKeys |-> [total |-> MaxTotal, used |-> 0]]
    /\ InitSessions
    /\ calc = [start |-> 0, end |-> 0, days |-> NoDays]
    /\ resp = None /\ rpc = None /\ srv = None /\ org = None /\ paging = None
    /\ rand = [caller |-> "none", pc |-> "idle", length |-> 0, i |-> 0,
               b |-> <<>>, requestID |-> None, handled |-> FALSE]

\* randomString(length) is called on its own
randomString(length) ==
    /\ rand.pc \in {"idle", "returned", "panicked", "done"}
    /\ rand' = RandStart("randomString", length)
    /\ UNCHANGED <<dbVars, calc, resp, rpc, srv, org, paging>>

\* LoggingInterceptor up to getRequestID: the id of the context when it has one,
\* generateRequestID() otherwise
LoggingInterceptor(ctxRequestID) ==
    /\ rand.pc \in {"idle", "returned", "panicked", "done"}
    /\ IF ctxRequestID # None
       THEN rand' = [RandStart("LoggingInterceptor", 0) EXCEPT
                       !.pc = "done", !.b = <<>>,
                       !.requestID = ctxRequestID, !.handled = TRUE]
       ELSE rand' = RandStart("LoggingInterceptor", RequestIDLength)
    /\ UNCHANGED <<dbVars, calc, resp, rpc, srv, org, paging>>

\* one round of `for i := range charset { b[i] = charset[...] }`, the write
\* b[i] panics when i is not below len(b)
randomStringLoop ==
    /\ rand.pc = "loop"
    /\ rand.i < CharsetLen
    /\ IF rand.i < rand.length
       THEN rand' = [rand EXCEPT !.b[rand.i + 1] = "char", !.i = @ + 1]
       ELSE rand' = [rand EXCEPT !.pc = "panicked"]
    /\ UNCHANGED <<dbVars, calc, resp, rpc, srv, org, paging>>

\* the loop is over: return string(b); in LoggingInterceptor the id is
\* the time stamp, "-" and the string, and the handler is invoked
randomStringReturn ==
    /\ rand.pc = "loop"
    /\ rand.i = CharsetLen
    /\ IF rand.caller = "LoggingInterceptor"
       THEN rand' = [rand EXCEPT !.pc = "done",
                                 !.requestID = <<"20060102150405", "-", rand.b>>,
                                 !.handled = TRUE]
       ELSE rand' = [rand EXCEPT !.pc = "returned"]
    /\ UNCHANGED <<dbVars, calc, resp, rpc, srv, org, paging>>

NextRand ==
    \/ \E length \in 0..MaxLength : randomString(length)
    \* ctx.Value("request_id"): absent, or the id as a one-element tuple
    \/ \E id \in {None, <<"req-1">>} : LoggingInterceptor(id)
    \/ randomStringLoop
    \/ randomStringReturn

SpecRand == InitRand /\ [][NextRand]_vars

\* ----------------------------------- ApproveLeave of two requests of one ledger row
\* two requests of employee e1 for ANNUAL leave that starts on day 0 have been
\* created and are PENDING
InitTwoRequests ==
    /\ \E e1 \in Times, e2 \in Times :
         /\ leaves = <<FromCreateRequest("e1", "ANNUAL", 0, e1),
                       FromCreateRequest("e1", "ANNUAL", 0, e2)>>
         /\ \A id \in DOMAIN leaves : LeaveConstraints(leaves[id])
    /\ \E u \in 0..MaxTotal :
         balances = [k \in ProvisionedKeys |-> [total |-> MaxTotal, used |-> u]]
    /\ InitSessions
    /\ calc = [start |-> 0, end |-> 0, days |-> NoDays]
    /\ resp = None /\ rpc = None /\ srv = None
    /\ org = None /\ paging = None /\ rand = None

NextTwoRequests ==
    \E p \in Procs :
        \/ \E id \in DOMAIN leaves, a \in Approvers, c \in CommentTexts :
             ApproveRead(p, id, a, c)
        \/ \E now \in Clock : ApproveUpdate(p, now)
        \/ ApproveFetchBalance(p)
        \/ ApproveSaveBalance(p)
        \/ ApproveSaveBalanceFails(p)
        \/ ApproveCommit(p)

SpecTwoRequests == InitTwoRequests /\ [][NextTwoRequests]_vars

\* ======================================================================= claims
Idle(p) == pc[p] = "idle"

\* errors ApproveLeave returns from its ledger steps
ApproveLedgerErrors ==
    {"failed to fetch leave balance", "failed to update leave balance"}

\* the last call of p was an ApproveLeave of id that got past its status
\* check: it read the request as PENDING
ApprovedFromPending(p, id) ==
    /\ Idle(p)
    /\ ret[p].op = "ApproveLeave" /\ ret[p].id = id
    /\ ret[p].err \in {"ok"} \cup ApproveLedgerErrors

\* C1: two ApproveLeave calls that both read the same request as PENDING (they
\* overlap) and do not fail on the ledger: exactly one of them returns success.
C1_ExactlyOneApproveSucceeds ==
    \A p \in Procs : \A q \in Procs \ {p} : \A id \in LeaveIds :
        ( /\ ApprovedFromPending(p, id) /\ ApprovedFromPending(q, id)
          /\ ret[p].err \notin ApproveLedgerErrors
          /\ ret[q].err \notin ApproveLedgerErrors )
        => ((ret[p].err = "ok") # (ret[q].err = "ok"))

\* C2: ApproveLeave on a request that is APPROVED, REJECTED or CANCELLED returns
\* an error at once and changes neither the request row nor any ledger row.
C2_ApproveNonPendingFails ==
    [][\A p \in Procs : \A id \in LeaveIds :
          ( /\ Live(id)
            /\ leaves[id].status \in {"APPROVED", "REJECTED", "CANCELLED"}
            /\ Idle(p)
            /\ ret'[p] # ret[p]
            /\ ret'[p].op = "ApproveLeave" /\ ret'[p].id = id )
          => ( /\ pc'[p] = "idle"
               /\ ret'[p].err \notin {"ok", "running"}
               /\ leaves' = leaves
               /\ balances' = balances )]_vars

C2_Witness ==
    \E p \in Procs : \E id \in LeaveIds :
        /\ Idle(p)
        /\ ret[p] = Returned("ApproveLeave", id, CannotApprove("REJECTED"))
        /\ Live(id) /\ leaves[id].status = "REJECTED"

\* C3: the COMMIT of an ApproveLeave of a PENDING request with day count D, on a
\* ledger row with total T and used U, leaves used = U + D and
\* total = max(T, U + D); remaining is max(total - used, 0), which is 0 when
\* D > T - U; and the debit is never refused by the constraints of the ledger.
C3_ApproveDebitsLedger ==
    [][ /\ \A p \in Procs :
             pc[p] = "approve_save" =>
                 \A k \in DOMAIN balRead[p] :
                     BalanceConstraints(
                         DebitBalance(balRead[p][k], leaveRead[p][ret[p].id].days))
        /\ \A p \in Procs :
             ( /\ pc[p] = "approve_commit" /\ pc'[p] = "idle"
               /\ leaves[ret[p].id].status = "PENDING" )
             => LET id == ret[p].id
                    k == BalanceKey(leaves[id])
                    D == leaves[id].days
                    T == balances[k].total
                    U == balances[k].used
                    after == balances'[k]
                IN /\ ret'[p].err = "ok"
                   /\ after.used = U + D
                   /\ after.total = Max(T, U + D)
                   /\ GetRemainingDays(after) = Max(after.total - after.used, 0)
                   /\ (D > T - U => GetRemainingDays(after) = 0)
                   /\ (D <= T - U => GetRemainingDays(after) = T - U - D) ]_vars

\* an approval beyond the remaining days went through: total was raised
C3_Witness ==
    \E p \in Procs : \E id \in LeaveIds :
        /\ Idle(p) /\ ret[p] = Returned("ApproveLeave", id, "ok")
        /\ Live(id) /\ leaves[id].status = "APPROVED"
        /\ balances[BalanceKey(leaves[id])].total > MaxTotal
        /\ GetRemainingDays(balances[BalanceKey(leaves[id])]) = 0

\* C4: an ApproveLeave that fails after its status update (no ledger row, or the
\* ledger write fails) returns an error and leaves both tables as they were:
\* the request is still PENDING, exactly the row the call read.
C4_ApproveAllOrNothing ==
    [][\A p \in Procs :
          (pc[p] \in {"approve_fetch", "approve_save"} /\ pc'[p] = "idle")
          => LET id == ret[p].id
             IN /\ ret'[p].op = "ApproveLeave"
                /\ ret'[p].err \in ApproveLedgerErrors
                /\ leaves' = leaves
                /\ balances' = balances
                /\ leaves'[id].status = "PENDING"
                /\ leaves'[id] = leaveRead[p][id] ]_vars

C4_Witness ==
    \E p \in Procs : \E q \in Procs : \E id \in LeaveIds :
        /\ Idle(p) /\ Idle(q)
        /\ ret[p] = Returned("ApproveLeave", id, "failed to fetch leave balance")
        /\ ret[q] = Returned("ApproveLeave", id, "failed to update leave balance")
        /\ Live(id) /\ leaves[id].status = "PENDING"
        /\ leaves[id].approver = NoApprover

\* C5: a request is inserted as PENDING and its status changes only from
\* PENDING, to APPROVED or to REJECTED; a status APPROVED or REJECTED stays.
C5_StatusChangesAtMostOnce ==
    [][\A id \in LeaveIds :
          /\ (id \notin DOMAIN leaves /\ id \in DOMAIN leaves')
                => leaves'[id].status = "PENDING"
          /\ (id \in DOMAIN leaves /\ leaves'[id].status # leaves[id].status)
                => ( /\ leaves[id].status = "PENDING"
                     /\ leaves'[id].status \in {"APPROVED", "REJECTED"} ) ]_vars

\* C6: the COMMIT of a RejectLeave of a PENDING request sets status REJECTED,
\* approver, comments and timestamp on that row and changes no ledger row.
C6_RejectSetsRejected ==
    [][\A p \in Procs :
          (pc[p] = "reject_commit" /\ pc'[p] = "idle")
          => LET id == ret[p].id
             IN /\ ret'[p] = Returned("RejectLeave", id, "ok")
                /\ leaves[id].status = "PENDING"
                /\ leaves'[id].status = "REJECTED"
                /\ leaves'[id].approver = args[p][1].approver
                /\ leaves'[id].comments = args[p][1].comments
                /\ leaves'[id].approvedAt \in Clock
                /\ leaves' = [leaves EXCEPT ![id] = leaves'[id]]
                /\ \A f \in {"employee", "leaveType", "startDate", "endDate", "days"} :
                       leaves'[id][f] = leaves[id][f]
                /\ leaves'[id].deleted = leaves[id].deleted
                /\ balances' = balances ]_vars

C6_Witness ==
    \E p \in Procs : \E id \in LeaveIds :
        /\ Idle(p) /\ ret[p] = Returned("RejectLeave", id, "ok")
        /\ Live(id) /\ leaves[id].status = "REJECTED"
        /\ leaves[id].approver \in Approvers
        /\ leaves[id].approvedAt \in Clock

\* C7: an ApproveLeave and a RejectLeave that both read the same request as
\* PENDING have finished: the ledger was debited (the ApproveLeave committed,
\* it returned success) if and only if the request ended APPROVED.
C7_DebitIffApproved ==
    \A p \in Procs : \A q \in Procs \ {p} : \A id \in DOMAIN leaves :
        ( /\ ApprovedFromPending(p, id)
          /\ Idle(q) /\ ret[q] = Returned("RejectLeave", id, "ok") )
        => ((ret[p].err = "ok") <=> (leaves[id].status = "APPROVED"))

\* C8: for end >= start calculateDaysRequested returns the number of whole days
\* from start to end plus one, at least 1, and 1 when both are on the same day.
C8_DayCountInclusive ==
    (calc.days # NoDays /\ calc.end >= calc.start)
    => LET whole == CHOOSE n \in 0..MaxCalcHour :
                        /\ n * HoursPerDay <= calc.end - calc.start
                        /\ calc.end - calc.start < (n + 1) * HoursPerDay
       IN /\ calc.days = whole + 1
          /\ calc.days >= 1
          /\ (ToDate(calc.start) = ToDate(calc.end) => calc.days = 1)

C8_Witness ==
    /\ calc.days # NoDays
    /\ calc.end - calc.start = 2 * HoursPerDay
    /\ calc.days = 3

\* C9: every stored request has days_requested equal to the inclusive span of
\* its stored start and end dates.
C9_DaysMatchStoredDates ==
    \A id \in DOMAIN leaves :
        leaves[id].days = leaves[id].endDate - leaves[id].startDate + 1

\* C10: every stored request has end date >= start date and day count > 0.
C10_StoredDatesOrdered ==
    \A id \in DOMAIN leaves :
        /\ leaves[id].endDate >= leaves[id].startDate
        /\ leaves[id].days > 0

\* a create and an update that would store end before start were both refused
C10_Witness ==
    \E p \in Procs : \E q \in Procs : \E id \in LeaveIds :
        /\ ret[p] = Returned("Create", 0, "failed to create")
        /\ ret[q] = Returned("Update", id, "failed to update leave request")
        /\ id \in DOMAIN leaves

\* C11: ApproveLeave and RejectLeave return an error of kind NotFound when no
\* request has the id, and an error of kind FailedPrecondition naming the
\* current status when the request exists and is not PENDING.
C11_ErrorKinds ==
    [][\A p \in Procs : \A id \in LeaveIds :
          ( /\ Idle(p) /\ pc'[p] = "idle"
            /\ ret'[p] # ret[p]
            /\ ret'[p].op \in {"ApproveLeave", "RejectLeave"} /\ ret'[p].id = id )
          => ( /\ ~Live(id) => StatusCode(ret'[p].err) = "NotFound"
               /\ (Live(id) /\ leaves[id].status # "PENDING")
                    => ( /\ StatusCode(ret'[p].err) = "FailedPrecondition"
                         /\ ret'[p].err = IF ret'[p].op = "ApproveLeave"
                                          THEN CannotApprove(leaves[id].status)
                                          ELSE CannotReject(leaves[id].status) ) )]_vars

\* C12: LeaveBalance(employee, year) returns exactly the ledger rows of that
\* employee, of every year when year = 0 and of that year only otherwise, and
\* every returned row has remaining = max(total - used, 0).
C12_LeaveBalanceRows ==
    resp # None =>
        /\ \A k \in DOMAIN balances :
             (k[1] = resp.employee /\ (resp.year = 0 \/ k[3] = resp.year))
             <=> (\E r \in resp.rows :
                     /\ <<r.employee, r.leaveType, r.year>> = k
                     /\ r.total = balances[k].total /\ r.used = balances[k].used)
        /\ \A r \in resp.rows :
             /\ <<r.employee, r.leaveType, r.year>> \in DOMAIN balances
             /\ r.remaining = Max(r.total - r.used, 0)
        /\ Cardinality(resp.rows)
             = Cardinality({k \in DOMAIN balances :
                              k[1] = resp.employee /\ (resp.year = 0 \/ k[3] = resp.year)})

C12_Witness ==
    /\ resp # None
    /\ resp.year # 0
    /\ Cardinality(resp.rows) = 1
    /\ \E k \in DOMAIN balances : k[1] = resp.employee /\ k[3] # resp.year
    /\ \E k \in DOMAIN balances : k[1] # resp.employee
    /\ \E r \in resp.rows : r.used > 0 /\ r.remaining = r.total - r.used

\* the call has entered the interceptor (or the handler) name
Invoked(name) == \E i \in 1..Len(rpc.trace) : rpc.trace[i] = name

\* the authentication interceptor returned without calling the next one
Rejected ==
    /\ Len(rpc.trace) >= 1
    /\ rpc.trace[Len(rpc.trace)] = "grpcauth"
    /\ "grpcauth" \in DOMAIN rpc.returned

\* the entry authorization = "Bearer " followed by a non-empty token
WellFormedCredential(md) ==
    /\ md.present
    /\ "authorization" \in DOMAIN md.entries
    /\ HasPrefix(md.entries["authorization"], BearerSpace)
    /\ Len(md.entries["authorization"]) > Len(BearerSpace)

\* C13: the authentication check rejects with Unauthenticated, without invoking
\* the handler, every call whose metadata is absent, has no authorization
\* entry, or has one that is not "Bearer", a space and a non-empty token.
C13_MalformedRejected ==
    (rpc # None /\ Invoked("grpcauth") /\ ~WellFormedCredential(rpc.md))
    => ( /\ Rejected
         /\ rpc.returned["grpcauth"].err.code = "Unauthenticated"
         /\ ~Invoked("handler") )

\* C14: a call without credential to the login or the token-refresh method of
\* the auth service reaches its handler, and SkipAuth holds of the method.
C14_PublicMethodsBypass ==
    ( /\ rpc # None /\ rpc.dir = "done"
      /\ rpc.method \in {LoginMethod, RefreshTokenMethod}
      /\ (IF rpc.md.present THEN DOMAIN rpc.md.entries = {} ELSE TRUE) )
    => (Invoked("handler") /\ SkipAuth(rpc.method))

\* C15: a call to a non-public method with the entry authorization =
\* "Bearer <token>", the token not empty, passes the authentication check and
\* its handler runs with the token stored in the context of the call.
C15_BearerTokenAccepted ==
    ( /\ rpc # None /\ rpc.dir = "done"
      /\ rpc.method \notin {LoginMethod, RefreshTokenMethod}
      /\ WellFormedCredential(rpc.md) )
    => ( /\ Invoked("handler")
         /\ TokenKey \in DOMAIN rpc.ctx
         /\ rpc.ctx[TokenKey] = TrimPrefix(rpc.md.entries["authorization"], BearerSpace) )

\* C16: when RecoveryInterceptor has returned: if the handler panicked, the
\* panic is gone, the method was logged, and the result is a nil response and
\* the error Internal "internal server error"; if the handler returned, the
\* result is what the handler returned.
C16_RecoveryInterceptor ==
    (rpc # None /\ "RecoveryInterceptor" \in DOMAIN rpc.returned)
    => LET out == rpc.returned["RecoveryInterceptor"]
           logged == {i \in 1..Len(rpc.log) : rpc.log[i].logger = "RecoveryInterceptor"}
       IN IF rpc.handled = "panicked"
          THEN /\ rpc.panic = NoPanic /\ rpc.dir # "crashed"
               /\ out = [resp |-> NoResponse,
                         err |-> StatusError("Internal", "internal server error")]
               /\ \E i \in logged : rpc.log[i].method = rpc.method
          ELSE /\ rpc.handled = "returned"
               /\ out = rpc.handlerResult
               /\ logged = {}

C16_Witness ==
    /\ rpc # None /\ rpc.dir = "done"
    /\ rpc.handled = "panicked"
    /\ rpc.result.resp = NoResponse
    /\ rpc.result.err = StatusError("Internal", "internal server error")

\* the order of the chain: tags, logging, authentication, recovery, handler
ClaimedOrder ==
    <<"grpctags", "grpclogrus", "grpcauth", "grpcrecovery", "RecoveryInterceptor", "handler">>

\* the logging interceptor has logged the call with this code
LoggedCode(code) ==
    \E i \in 1..Len(rpc.log) :
        rpc.log[i].logger = "grpclogrus" /\ rpc.log[i].detail = code

\* C17: every call enters tags, logging, authentication, recovery and the
\* handler in this order; a call rejected by authentication enters neither a
\* recovery interceptor nor the handler and the logging interceptor returns
\* its Unauthenticated error; a panic of the handler is an Internal error when
\* the call is back in the logging interceptor.
C17_ChainOrder ==
    rpc # None =>
        /\ Len(rpc.trace) <= Len(ClaimedOrder)
        /\ rpc.trace = SubSeq(ClaimedOrder, 1, Len(rpc.trace))
        /\ Rejected =>
              /\ ~Invoked("grpcrecovery") /\ ~Invoked("RecoveryInterceptor")
              /\ ~Invoked("handler")
              /\ rpc.result.err.code = "Unauthenticated"
              /\ rpc.dir = "done" =>
                    /\ "grpclogrus" \in DOMAIN rpc.returned
                    /\ rpc.returned["grpclogrus"].err.code = "Unauthenticated"
                    /\ LoggedCode("Unauthenticated")
        /\ (rpc.handled = "panicked" /\ At("grpclogrus", "out")) =>
              /\ rpc.panic = NoPanic
              /\ rpc.result.err.code = "Internal"
        /\ (rpc.handled = "panicked" /\ rpc.dir = "done") =>
              /\ rpc.returned["grpclogrus"].err.code = "Internal"
              /\ LoggedCode("Internal")

C17_Witness ==
    /\ rpc # None /\ rpc.dir = "done"
    /\ Rejected
    /\ rpc.returned["grpclogrus"].err.code = "Unauthenticated"
    /\ LoggedCode("Unauthenticated")

\* C18: a step that changes a row of leave_balances is the COMMIT of an
\* ApproveLeave that returns success: Create, Update, Delete, List,
\* RejectLeave, LeaveBalance and a failing ApproveLeave change no ledger row.
C18_OnlyApproveChangesLedger ==
    [][balances' # balances
         => \E p \in Procs :
               /\ pc[p] = "approve_commit" /\ pc'[p] = "idle"
               /\ ret'[p] = Returned("ApproveLeave", ret[p].id, "ok")
               /\ \A q \in Procs \ {p} : ret'[q] = ret[q]]_vars

C18_Witness ==
    \E p \in Procs : \E q \in Procs \ {p} : \E id \in LeaveIds :
        /\ Idle(p) /\ Idle(q)
        /\ ret[p] = Returned("RejectLeave", id, "ok")
        /\ ret[q].op = "ApproveLeave" /\ ret[q].err \in ApproveLedgerErrors
        /\ leaves[id].status = "REJECTED"
        /\ \E u \in 0..MaxTotal :
             \A k \in DOMAIN balances : balances[k] = [total |-> MaxTotal, used |-> u]

\* C19: every stored ledger row has 0 <= used <= total in every reachable
\* state, overlapping approvals included, and so has the row an ApproveLeave
\* computes and the row it writes.
C19_UsedWithinTotal ==
    /\ \A k \in DOMAIN balances :
         0 <= balances[k].used /\ balances[k].used <= balances[k].total
    /\ \A p \in Procs :
         /\ pc[p] = "approve_save" =>
               \A k \in DOMAIN balRead[p] :
                   LET b == DebitBalance(balRead[p][k], leaveRead[p][ret[p].id].days)
                   IN 0 <= b.used /\ b.used <= b.total
         /\ \A k \in DOMAIN wBal[p] :
               0 <= wBal[p][k].used /\ wBal[p][k].used <= wBal[p][k].total

C19_Witness ==
    \E p \in Procs : \E q \in Procs \ {p} : \E id \in LeaveIds :
        /\ ret[p] = Returned("ApproveLeave", id, "ok")
        /\ ret[q] = Returned("ApproveLeave", id, "ok")
        /\ \E k \in DOMAIN balances :
             /\ balances[k].total > MaxTotal
             /\ balances[k].used = balances[k].total

\* C20: an Update or a Delete that returns success has performed its effect:
\* the id matched a request and, for Delete, the request was PENDING and is
\* now deleted.
C20_NoEffectMeansError ==
    [][\A p \in Procs : \A id \in LeaveIds :
          ( /\ Idle(p)
            /\ ret'[p] # ret[p]
            /\ ret'[p].op \in {"Update", "Delete"}
            /\ ret'[p].id = id
            /\ ret'[p].err = "ok" )
          => ( /\ Live(id)
               /\ ret'[p].op = "Delete"
                    => (leaves[id].status = "PENDING" /\ leaves'[id].deleted) )]_vars

C22_DuplicateIsAlreadyExists ==
    org # None =>
        /\ \A p \in Procs :
               (org.calls[p].pc = "idle" /\ org.calls[p].held)
                   => org.calls[p].code = "AlreadyExists"
        /\ \A r1, r2 \in org.employees :
               r1 # r2 => /\ r1.email # r2.email
                          /\ r1.employeeID # r2.employeeID

\* C24: whatever page and page size ListEmployees, GetEmployeesByDepartment and
\* ListDepartments receive, the repository is handed page >= 1 and
\* 1 <= pageSize <= 100, so the offset is never negative
C24_PagingWithinLimits ==
    (paging # None /\ paging.op # "none") =>
        /\ paging.page >= 1
        /\ paging.pageSize >= 1
        /\ paging.pageSize <= MaxPageSize
        /\ (paging.page - 1) * paging.pageSize >= 0

\* C25: randomString(n) never writes out of range and returns exactly n
\* characters for every n >= 0, so that LoggingInterceptor, whose getRequestID
\* takes the id of the context or a fresh one from randomString(8), never
\* faults before it invokes the handler
C25_RandomStringReturns ==
    rand # None =>
        /\ rand.pc # "panicked"
        /\ rand.pc = "returned" => Len(rand.b) = rand.length
        /\ (rand.caller = "LoggingInterceptor" /\ rand.pc = "done")
               => rand.handled

\* C23: the COMMIT of a successful ApproveLeave changes exactly one ledger row,
\* the one of the employee, the leave type and the year of the start date of
\* the request; the rows of other employees, leave types and years, the year
\* of the end date included, stay as they are
C23_ApproveChangesOneRow ==
    [][ \A p \in Procs :
          ( /\ pc[p] = "approve_commit" /\ pc'[p] = "idle"
            /\ ret'[p].err = "ok" )
          => LET request == leaves[ret[p].id]
                 key == <<request.employee, request.leaveType,
                          Year(request.startDate)>>
             IN /\ key \in DOMAIN balances
                /\ balances'[key] # balances[key]
                /\ \A k \in DOMAIN balances \ {key} :
                       balances'[k] = balances[k] ]_vars

\* a request that spans a year boundary was approved: the row of its start
\* year was debited, the row of its end year was not
C23_Witness ==
    \E p \in Procs : \E id \in LeaveIds :
        /\ Idle(p) /\ ret[p] = Returned("ApproveLeave", id, "ok")
        /\ Live(id) /\ leaves[id].status = "APPROVED"
        /\ Year(leaves[id].startDate) # Year(leaves[id].endDate)
        /\ LET startKey == <<leaves[id].employee, leaves[id].leaveType,
                             Year(leaves[id].startDate)>>
               endKey == <<leaves[id].employee, leaves[id].leaveType,
                           Year(leaves[id].endDate)>>
           IN /\ endKey \in DOMAIN balances
              /\ balances[startKey].used = balances[endKey].used + leaves[id].days
              /\ balances[endKey] = balances[<<"e2", "ANNUAL", Year(0)>>]

\* C26: when AuthFunc has succeeded on a call that carries the token t,
\* GetTokenFromContext on the context it returned yields (t, true); it yields
\* false only on a context that no successful AuthFunc has produced
C26_TokenRoundTrip ==
    (rpc # None /\ Invoked("grpcauth")) =>
        LET auth == AuthFunc(rpc.md)
            got == GetTokenFromContext(rpc.ctx)
        IN /\ (auth.err = NoError /\ rpc.ctx # None)
                  => /\ got.ok
                     /\ got.token = TrimPrefix(rpc.md.entries[AuthHeaderKey],
                                               BearerSpace)
           /\ ~got.ok => (auth.err # NoError \/ rpc.ctx = None)

\* C27: a request is removed only while it is PENDING, by a step that changes
\* nothing else of it and no ledger row; Delete on an APPROVED or REJECTED
\* request changes neither the requests nor the ledger; a removed request stays
\* removed, and an ApproveLeave or RejectLeave that starts on its id returns
\* "leave request not found" and changes no ledger row
C27_DeleteOnlyPending ==
    [][ /\ \A id \in DOMAIN leaves :
             /\ (~leaves[id].deleted /\ leaves'[id].deleted)
                    => /\ leaves[id].status = "PENDING"
                       /\ leaves' = [leaves EXCEPT ![id].deleted = TRUE]
                       /\ balances' = balances
             /\ leaves[id].deleted => leaves'[id].deleted
        /\ \A p \in Procs : \A id \in DOMAIN leaves :
             /\ ( /\ Delete(p, id)
                  /\ leaves[id].status \in {"APPROVED", "REJECTED"} )
                    => (leaves' = leaves /\ balances' = balances)
             /\ ( /\ pc[p] = "idle" /\ leaves[id].deleted
                  /\ ret'[p].op \in {"ApproveLeave", "RejectLeave"}
                  /\ ret'[p].id = id
                  /\ (pc'[p] # "idle" \/ ret'[p] # ret[p]) )
                    => /\ pc'[p] = "idle"
                       /\ ret'[p].err = "leave request not found"
                       /\ leaves' = leaves
                       /\ balances' = balances ]_vars

\* a PENDING request was deleted, and then an ApproveLeave and a RejectLeave on
\* its id have failed
C27_Witness ==
    \E p \in Procs : \E q \in Procs \ {p} : \E id \in LeaveIds :
        /\ Idle(p) /\ Idle(q)
        /\ id \in DOMAIN leaves /\ leaves[id].deleted
        /\ leaves[id].status = "PENDING"
        /\ ret[p] = Returned("ApproveLeave", id, "leave request not found")
        /\ ret[q] = Returned("RejectLeave", id, "leave request not found")

\* the sum of days_requested over the stored requests of table ls that are
\* APPROVED and have the employee, the leave type and the start year of key k
RECURSIVE SumDays(_, _)
SumDays(ls, ids) ==
    IF ids = {} THEN 0
    ELSE LET id == CHOOSE x \in ids : TRUE
         IN ls[id].days + SumDays(ls, ids \ {id})

ApprovedDays(ls, k) ==
    SumDays(ls, {id \in DOMAIN ls :
                    /\ ~ls[id].deleted
                    /\ ls[id].status = "APPROVED"
                    /\ <<ls[id].employee, ls[id].leaveType,
                         Year(ls[id].startDate)>> = k})

\* C28: ledger conservation for calls that do not overlap: there is no request
\* in the initial state, and every step changes the used days of each ledger
\* key by as much as it changes the sum of days_requested over the APPROVED
\* requests of that key, so that the increase of used since the initial state
\* is that sum
C28_LedgerConservation ==
    [][\A k \in DOMAIN balances :
          balances'[k].used - balances[k].used
              = ApprovedDays(leaves', k) - ApprovedDays(leaves, k)]_vars

\* C30: a Delete and an ApproveLeave of the same request have both finished: if
\* the ApproveLeave returned success, and so debited the ledger, the request is
\* stored, not deleted, with status APPROVED
C30_NoDebitForDeleted ==
    \A p \in Procs : \A q \in Procs \ {p} : \A id \in DOMAIN leaves :
        ( /\ Idle(p) /\ Idle(q)
          /\ ret[p] = Returned("ApproveLeave", id, "ok")
          /\ ret[q] = Returned("Delete", id, "ok") )
        => (~leaves[id].deleted /\ leaves[id].status = "APPROVED")

\* C29: ApproveLeave of two different PENDING requests of one employee, leave
\* type and start year have both returned success: the row they share has
\* used = U + D1 + D2 and total = max(T, U + D1 + D2), U and T being the values
\* the rows of the ledger started with, which the row of e2 still has
C29_NoLostUpdate ==
    \A p \in Procs : \A q \in Procs \ {p} :
        ( /\ Idle(p) /\ Idle(q)
          /\ Len(leaves) = 2
          /\ ret[p] = Returned("ApproveLeave", 1, "ok")
          /\ ret[q] = Returned("ApproveLeave", 2, "ok")
          /\ BalanceKey(leaves[1]) = BalanceKey(leaves[2]) )
        => LET k == BalanceKey(leaves[1])
               U == balances[<<"e2", "ANNUAL", Year(0)>>].used
               T == balances[<<"e2", "ANNUAL", Year(0)>>].total
               D1 == leaves[1].days
               D2 == leaves[2].days
           IN /\ balances[k].used = U + D1 + D2
              /\ balances[k].total = Max(T, U + D1 + D2)
====
